---------------------------- MODULE Spec2Model ----------------------------
(***************************************************************************)
(* virtualenvpruner: discovery, sizing and version detection of Python     *)
(* virtual environments (src/src/venvs.rs) and the scan part of the        *)
(* interactive loop (src/src/main.rs).                                     *)
(*                                                                         *)
(* Four specifications share the variables:                                *)
(*   Spec      get_venvs (get_venv_paths, build_virtualenvs) and the sort  *)
(*             of main, over a family of home-directory layouts;           *)
(*   SizeSpec  get_dir_size over a family of trees with symlinks and       *)
(*             failing entries, one call of the recursion per step, the    *)
(*             parallel children taken in every order;                     *)
(*   BuildSpec build_virtualenv / get_python_version for one candidate,    *)
(*             one strategy per step;                                      *)
(*   LoopSpec  the whole loop of main: scan, selection, confirmation,      *)
(*             delete_venvs one remove_dir_all per step, and the prompt    *)
(*             that starts the next iteration.                             *)
(*                                                                         *)
(* A path is a sequence of components.  A filesystem is a function from    *)
(* paths to nodes; a path outside its domain does not exist.  Text is a    *)
(* sequence of tokens: the literals the code looks for ("version = ",      *)
(* "python-", "python", "Python ") are one token each, " " is whitespace.  *)
(***************************************************************************)
EXTENDS Integers, Sequences, FiniteSets, TLC

VARIABLES
    fs,           \* the filesystem
    home_dir,     \* dirs::home_dir(): the home directory, or NoPath
    pc,           \* position of main: "scan", "build", "found", "confirm",
                  \* "delete", "exit" (break, Ok) or "failed" (main returns Err)
    venv_paths,   \* get_venv_paths' result (a sequence of paths)
    todo,         \* indices of venv_paths no worker has finished yet
    venvs,        \* the collected records
    errors,       \* candidates whose build failed (the eprintln of build_virtualenvs)
    sz_root,      \* SizeSpec: the path get_dir_size was called on
    sz_pending,   \* SizeSpec: recursive calls spawned and not yet run
    sz_acc,       \* SizeSpec: the running sum
    sz_contrib,   \* SizeSpec: what each finished call added itself
    sz_log,       \* SizeSpec: the eprintln lines
    b_path,       \* BuildSpec: the candidate
    b_pc,         \* BuildSpec: position in build_virtualenv
    b_tried,      \* BuildSpec: the strategies consulted, in order
    b_version,    \* BuildSpec: get_python_version's result
    b_result,     \* BuildSpec: build_virtualenv's result
    iteration,    \* LoopSpec: the number of the current pass through the loop
    fs_scan,      \* LoopSpec: the filesystem as this iteration's scan saw it
    checked,      \* LoopSpec: the option indices the operator ticked
    selected_venvs, \* LoopSpec: select_venvs_to_delete's result
    answer,       \* LoopSpec: confirm_deletion's outcome in this iteration
    removals      \* LoopSpec: the paths given to remove_dir_all in this iteration

vars == <<fs, home_dir, pc, venv_paths, todo, venvs, errors,
          sz_root, sz_pending, sz_acc, sz_contrib, sz_log,
          b_path, b_pc, b_tried, b_version, b_result,
          iteration, fs_scan, checked, selected_venvs, answer, removals>>

scanVars == <<home_dir, pc, venv_paths, todo, venvs, errors>>
sizeVars == <<sz_root, sz_pending, sz_acc, sz_contrib, sz_log>>
buildVars == <<b_path, b_pc, b_tried, b_version, b_result>>
loopVars == <<iteration, fs_scan, checked, selected_venvs, answer, removals>>

(***************************************************************************)
(* Bounds                                                                  *)
(***************************************************************************)
\* file and directory byte lengths range over 0..MaxLen
MaxLen == 2

(***************************************************************************)
(* The filesystem                                                          *)
(***************************************************************************)
NoPath == <<"<none>">>

NoNode ==
    [kind |-> "none", len |-> 0, target |-> <<>>, stat_ok |-> FALSE,
     list_ok |-> FALSE, bad_entries |-> 0, open_ok |-> FALSE, lines |-> <<>>,
     spawn_ok |-> FALSE, stdout |-> <<>>, stderr |-> <<>>]

DirNode(n) ==
    [NoNode EXCEPT !.kind = "dir", !.len = n, !.stat_ok = TRUE, !.list_ok = TRUE]

FileNode(n) ==
    [NoNode EXCEPT !.kind = "file", !.len = n, !.stat_ok = TRUE, !.open_ok = TRUE]

\* symlink_metadata of a symlink reports the length of the link's own text
SymNode(t) ==
    [NoNode EXCEPT !.kind = "symlink", !.len = Len(t), !.target = t, !.stat_ok = TRUE]

TextNode(ls) == [FileNode(Len(ls)) EXCEPT !.lines = ls]

ExecNode(out, err) ==
    [FileNode(1) EXCEPT !.spawn_ok = TRUE, !.stdout = out, !.stderr = err]

NodeAt(f, p) == IF p \in DOMAIN f THEN f[p] ELSE NoNode

Parent(p) == SubSeq(p, 1, Len(p) - 1)

IsPrefix(p, q) == Len(p) <= Len(q) /\ SubSeq(q, 1, Len(p)) = p

\* the entries a listing of directory p yields
Entries(f, p) ==
    {q \in DOMAIN f : Len(q) = Len(p) + 1 /\ Parent(q) = p /\ f[q].kind # "none"}

\* the kernel's limit on symlinks followed in one resolution (ELOOP past it)
MaxSymlinks == 3

RECURSIVE Walk(_, _, _, _)
\* path resolution: done is resolved and a directory, rest is still to walk
Walk(f, done, rest, fuel) ==
    IF rest = <<>> THEN done
    ELSE LET q == Append(done, Head(rest))
             n == NodeAt(f, q)
         IN CASE n.kind = "none" -> NoPath
              [] n.kind = "symlink" ->
                    IF fuel = 0 THEN NoPath
                    ELSE Walk(f, <<>>, n.target \o Tail(rest), fuel - 1)
              [] n.kind = "dir" -> Walk(f, q, Tail(rest), fuel)
              [] n.kind = "file" -> IF Tail(rest) = <<>> THEN q ELSE NoPath

\* std::fs::canonicalize: every symlink resolved, NoPath when it fails
canonicalize(f, p) == Walk(f, <<>>, p, MaxSymlinks)

\* Path::exists: metadata(path).is_ok(), which follows symlinks
exists(f, p) ==
    LET d == canonicalize(f, p) IN d # NoPath /\ NodeAt(f, d).stat_ok

\* where lstat(p) looks: the parent resolved, the last component as it is
LstatPath(f, p) ==
    IF Len(p) <= 1 THEN p
    ELSE LET d == canonicalize(f, Parent(p))
         IN IF d = NoPath \/ NodeAt(f, d).kind # "dir" THEN NoPath
            ELSE Append(d, p[Len(p)])

(***************************************************************************)
(* get_dir_size  (venvs.rs 123-175)                                        *)
(***************************************************************************)
\* symlink_metadata(path): lstat, never follows the last component
symlink_metadata(f, p) ==
    LET n == NodeAt(f, LstatPath(f, p)) IN
    IF n.kind = "none" \/ ~n.stat_ok
    THEN [ok |-> FALSE, meta |-> NoNode]
    ELSE [ok |-> TRUE, meta |-> n]

is_symlink_Never(m) == FALSE

\* metadata.file_type().is_symlink()
is_symlink(m) == m.kind = "symlink"

is_dir(m) == m.kind = "dir"

\* read_dir(path), which follows symlinks: the entries as path.join(name), or
\* an error; bad is the number of entries whose own read fails (the Err items
\* of the iterator)
read_dir(f, p) ==
    LET d == canonicalize(f, p) IN
    IF d = NoPath \/ ~is_dir(NodeAt(f, d)) \/ ~NodeAt(f, d).list_ok
    THEN [ok |-> FALSE, entries |-> {}, bad |-> 0]
    ELSE [ok |-> TRUE,
          entries |-> {Append(p, q[Len(q)]) : q \in Entries(f, d)},
          bad |-> NodeAt(f, d).bad_entries]

\* line 148: a directory that cannot be listed returns the size it has so far
UnlistableSize(m) == m.len

BadEntriesSize_Counted(n) == n

\* line 164: each entry that cannot be read contributes 0
BadEntriesSize(n) == n * 0

OwnSize_FilesOnly(m) == IF is_dir(m) THEN 0 ELSE m.len

\* line 140: let mut size = metadata.len(), for files and directories alike
OwnSize(m) == m.len

\* what one call adds by itself, its children's calls apart
CallSize(f, p) ==
    LET md == symlink_metadata(f, p)
        rd == read_dir(f, p)
    IN IF ~md.ok THEN 0
       ELSE IF is_symlink(md.meta) THEN 0
       ELSE IF is_dir(md.meta)
            THEN (IF rd.ok
                  THEN OwnSize(md.meta) + BadEntriesSize(rd.bad)
                  ELSE UnlistableSize(md.meta))
            ELSE OwnSize(md.meta)

\* the recursive calls one call makes (lines 153-160)
CallChildren(f, p) ==
    LET md == symlink_metadata(f, p)
        rd == read_dir(f, p)
    IN IF md.ok /\ ~is_symlink(md.meta) /\ is_dir(md.meta) /\ rd.ok
       THEN rd.entries
       ELSE {}

\* the eprintln lines of one call
CallLog(f, p) ==
    LET md == symlink_metadata(f, p) IN
    IF ~md.ok THEN {<<"Failed to get metadata for", p>>}
    ELSE IF is_symlink(md.meta) \/ ~is_dir(md.meta) THEN {}
    ELSE IF ~read_dir(f, p).ok THEN {<<"Failed to read directory", p>>}
    ELSE IF read_dir(f, p).bad > 0 THEN {<<"Failed to read an entry in", p>>}
    ELSE {}

RECURSIVE get_dir_size(_, _), SumSizes(_, _)
\* the whole recursion, read sequentially
get_dir_size(f, p) == CallSize(f, p) + SumSizes(f, CallChildren(f, p))

SumSizes(f, S) ==
    IF S = {} THEN 0
    ELSE LET q == CHOOSE x \in S : TRUE
         IN get_dir_size(f, q) + SumSizes(f, S \ {q})

(***************************************************************************)
(* SizeSpec: get_dir_size on a tree, one call of the recursion per step.   *)
(* par_bridge hands the entries of a directory to the pool in no fixed     *)
(* order and sum() adds the results as they come: every call spawned and   *)
(* not yet run may be the next one to run.                                 *)
(***************************************************************************)
SzR == <<"venv">>
SzF == <<"venv", "f">>
SzD == <<"venv", "d">>
SzG == <<"venv", "d", "g">>
SzL == <<"venv", "d", "l">>

LinkShapes == {"none", "file", "to_file", "to_dir", "to_ancestor", "broken"}

LinkNode(shape) ==
    CASE shape = "none" -> NoNode
      [] shape = "file" -> FileNode(1)
      [] shape = "to_file" -> SymNode(SzF)
      [] shape = "to_dir" -> SymNode(SzD)
      [] shape = "to_ancestor" -> SymNode(SzR)
      [] shape = "broken" -> SymNode(<<"gone">>)

Faults ==
    {"none", "stat_f", "stat_d", "stat_l", "list_d", "list_root", "entry_root", "entry_d"}

Faulted(f, fault) ==
    CASE fault = "none" -> f
      [] fault = "stat_f" -> [f EXCEPT ![SzF].stat_ok = FALSE]
      [] fault = "stat_d" -> [f EXCEPT ![SzD].stat_ok = FALSE]
      [] fault = "stat_l" -> [f EXCEPT ![SzL].stat_ok = FALSE]
      [] fault = "list_d" -> [f EXCEPT ![SzD].list_ok = FALSE]
      [] fault = "list_root" -> [f EXCEPT ![SzR].list_ok = FALSE]
      [] fault = "entry_root" -> [f EXCEPT ![SzR].bad_entries = 1]
      [] fault = "entry_d" -> [f EXCEPT ![SzD].bad_entries = 1]

SizeTree(lf, lg, ld, shape, fault) ==
    Faulted((SzR :> DirNode(ld)) @@ (SzF :> FileNode(lf)) @@ (SzD :> DirNode(ld))
            @@ (SzG :> FileNode(lg)) @@ (SzL :> LinkNode(shape)), fault)

SizeTrees ==
    {SizeTree(lf, lg, ld, shape, fault) :
        lf \in 0..MaxLen, lg \in 0..MaxLen, ld \in {0, MaxLen},
        shape \in LinkShapes, fault \in Faults}

ScanOff ==
    /\ home_dir = NoPath
    /\ pc = "off" /\ venv_paths = <<>> /\ todo = {} /\ venvs = <<>> /\ errors = {}

SizeOff ==
    /\ sz_root = NoPath /\ sz_pending = {} /\ sz_acc = 0
    /\ sz_contrib = <<>> /\ sz_log = {}

BuildOff ==
    /\ b_path = NoPath /\ b_pc = "off" /\ b_tried = <<>>
    /\ b_version = [t |-> "none"] /\ b_result = [t |-> "none"]

LoopOff ==
    /\ iteration = 0 /\ fs_scan = <<>> /\ checked = {}
    /\ selected_venvs = <<>> /\ answer = "none" /\ removals = <<>>

SizeInit ==
    /\ fs \in SizeTrees
    /\ sz_root \in {SzR, SzL}
    /\ sz_pending = {sz_root}
    /\ sz_acc = 0
    /\ sz_contrib = <<>>
    /\ sz_log = {}
    /\ ScanOff
    /\ BuildOff
    /\ LoopOff

\* one call of get_dir_size, up to the calls it spawns for its entries
SizeCall(p) ==
    /\ p \in sz_pending
    /\ sz_acc' = sz_acc + CallSize(fs, p)
    /\ sz_contrib' = (p :> CallSize(fs, p)) @@ sz_contrib
    /\ sz_pending' = (sz_pending \ {p}) \cup CallChildren(fs, p)
    /\ sz_log' = sz_log \cup CallLog(fs, p)
    /\ UNCHANGED <<fs, sz_root, scanVars, buildVars, loopVars>>

SizeNext == \E p \in sz_pending : SizeCall(p)

SizeSpec == SizeInit /\ [][SizeNext]_vars

SizeDone == sz_root # NoPath /\ sz_pending = {}

\* the step-by-step run and the sequential reading give the same size
SizeStepAgrees == SizeDone => sz_acc = get_dir_size(fs, sz_root)

RECURSIVE SumLen(_, _)
SumLen(f, S) ==
    IF S = {} THEN 0
    ELSE LET q == CHOOSE x \in S : TRUE IN f[q].len + SumLen(f, S \ {q})

\* every existing node at or below root
Under(f, root) == {q \in DOMAIN f : IsPrefix(root, q) /\ f[q].kind # "none"}

\* the directories on the way from root down to q, q itself apart
Above(root, q) == {SubSeq(q, 1, k) : k \in Len(root)..(Len(q) - 1)}

Seen(p) == p \in DOMAIN sz_contrib

Logged(msg, p) == <<msg, p>> \in sz_log

\* the same tree with every symlink pointing nowhere
Retargeted(f) ==
    [q \in DOMAIN f |->
        IF f[q].kind = "symlink" THEN [f[q] EXCEPT !.target = <<"gone">>] ELSE f[q]]

(***************************************************************************)
(* C2.  Every symlink entry of the tree (to a file, to a directory, to an  *)
(* ancestor, broken) adds exactly 0, no call is ever made on a path below  *)
(* it, and the final size is the size of the same tree with every symlink  *)
(* pointing nowhere.                                                       *)
(***************************************************************************)
SymlinkContributesZero ==
    /\ \A p \in DOMAIN sz_contrib :
          NodeAt(fs, p).kind = "symlink" =>
             /\ sz_contrib[p] = 0
             /\ \A q \in DOMAIN sz_contrib \cup sz_pending : IsPrefix(p, q) => q = p
    /\ SizeDone => sz_acc = get_dir_size(Retargeted(fs), sz_root)

\* a finished run over a tree holding a symlink to its own root
SymlinkCycleSized ==
    /\ SizeDone /\ sz_root = SzR /\ Seen(SzL)
    /\ fs[SzL].kind = "symlink" /\ fs[SzL].target = SzR /\ fs[SzL].stat_ok
    /\ sz_acc > 0

\* a tree of regular files and directories only, nothing failing
OnlyFilesAndDirs ==
    /\ sz_root = SzR
    /\ \A q \in Under(fs, sz_root) :
          /\ fs[q].kind \in {"file", "dir"}
          /\ fs[q].stat_ok
          /\ fs[q].kind = "dir" => fs[q].list_ok /\ fs[q].bad_entries = 0

FilesUnder == {q \in Under(fs, sz_root) : fs[q].kind = "file"}
DirsUnder == {q \in Under(fs, sz_root) : fs[q].kind = "dir"}

\* C3 as claimed: the size is exactly the sum of the regular files' lengths
SizeIsSumOfFiles ==
    (SizeDone /\ OnlyFilesAndDirs) => sz_acc = SumLen(fs, FilesUnder)

\* C3 as amended: the size is the sum of the regular files' lengths plus the
\* own lengths of the directories of the tree, the root included, whatever
\* the order the calls ran in
SizeIsSumOfFilesAndDirs ==
    (SizeDone /\ OnlyFilesAndDirs) =>
        sz_acc = SumLen(fs, FilesUnder) + SumLen(fs, DirsUnder)

\* a finished run over such a tree with non-empty files and directories
PlainTreeSized ==
    /\ SizeDone /\ OnlyFilesAndDirs
    /\ fs[SzL].kind = "file" /\ fs[SzF].len > 0 /\ fs[SzG].len > 0
    /\ fs[SzD].len > 0 /\ Seen(SzL) /\ Seen(SzG)

\* what is counted: every non-symlink node whose metadata can be read and
\* that is reached from root through directories that can be read and listed
Counted(f, root) ==
    {q \in Under(f, root) :
        /\ f[q].kind # "symlink" /\ f[q].stat_ok
        /\ \A a \in Above(root, q) :
              f[a].kind = "dir" /\ f[a].stat_ok /\ f[a].list_ok}

ErrorsAbsorbed(countOwn) ==
    /\ sz_acc >= 0
    /\ \A p \in DOMAIN sz_contrib :
          /\ sz_contrib[p] >= 0
          /\ Logged("Failed to get metadata for", p) => sz_contrib[p] = 0
          /\ Logged("Failed to read directory", p) =>
                /\ sz_contrib[p] = (IF countOwn THEN fs[p].len ELSE 0)
                /\ \A q \in DOMAIN sz_contrib \cup sz_pending : IsPrefix(p, q) => q = p
          /\ Logged("Failed to read an entry in", p) =>
                /\ sz_contrib[p] = fs[p].len
                /\ Entries(fs, p) \subseteq DOMAIN sz_contrib \cup sz_pending
    /\ \A p \in DOMAIN fs :
          (NodeAt(fs, Parent(p)).kind = "dir" /\ Seen(Parent(p))
             /\ (Logged("Failed to get metadata for", p) \/ Logged("Failed to read directory", p)))
          => \A q \in Entries(fs, Parent(p)) : Seen(q) \/ q \in sz_pending

\* C8 as claimed: every entry that hits an error adds exactly 0, a directory
\* that cannot be listed included
SizeErrorsContributeZero == ErrorsAbsorbed(FALSE)

\* C8 as amended: the size is never negative; a directory that cannot be
\* listed adds its own length and nothing for its contents; an entry whose
\* metadata or directory entry cannot be read adds 0; the siblings of a
\* failing entry are counted in full
SizeErrorsAbsorbed ==
    /\ ErrorsAbsorbed(TRUE)
    /\ SizeDone => sz_acc = SumLen(fs, Counted(fs, sz_root))

\* a finished run that met a directory it could not list, of non-zero length,
\* beside a sibling that was counted
UnlistableDirSized ==
    /\ SizeDone /\ sz_root = SzR
    /\ Logged("Failed to read directory", SzD) /\ fs[SzD].len > 0
    /\ Seen(SzF) /\ sz_contrib[SzF] > 0

(***************************************************************************)
(* Text  (the string operations of get_python_version)                     *)
(***************************************************************************)
\* a line BufRead::lines cannot decode holds this token: lines() yields Err
\* for it and filter_map(Result::ok) drops it
BadBytes == "\\xff"

\* a file name OsStr::to_str cannot decode
BadName == "\\xff"

Decodable(line) == \A i \in 1..Len(line) : line[i] # BadBytes

starts_with(s, tok) == Len(s) > 0 /\ s[1] = tok

RECURSIVE trim_start(_)
trim_start(s) == IF starts_with(s, " ") THEN trim_start(Tail(s)) ELSE s

RECURSIVE trim_end(_)
trim_end(s) ==
    IF Len(s) > 0 /\ s[Len(s)] = " " THEN trim_end(SubSeq(s, 1, Len(s) - 1)) ELSE s

\* str::trim
trim(s) == trim_end(trim_start(s))

RECURSIVE trim_start_matches(_, _)
\* str::trim_start_matches: the prefix is removed as often as it repeats
trim_start_matches(s, tok) ==
    IF starts_with(s, tok) THEN trim_start_matches(Tail(s), tok) ELSE s

\* str::find: the index of the first occurrence, 0 when there is none
find(s, tok) ==
    IF \E i \in 1..Len(s) : s[i] = tok
    THEN CHOOSE i \in 1..Len(s) : s[i] = tok /\ \A j \in 1..(i - 1) : s[j] # tok
    ELSE 0

RECURSIVE take_word(_)
take_word(s) ==
    IF s = <<>> \/ Head(s) = " " THEN <<>> ELSE <<Head(s)>> \o take_word(Tail(s))

\* split_whitespace().next().unwrap_or("Unknown")
first_word(s) ==
    IF trim_start(s) = <<>> THEN <<"Unknown">> ELSE take_word(trim_start(s))

\* BufReader::new(file).lines().filter_map(Result::ok)
lines_ok(ls) == SelectSeq(ls, Decodable)

\* the tokens of a name in lib
NameText(c) ==
    CASE c = "python3.11" -> <<"python", "3.11">>
      [] c = "python3.9" -> <<"python", "3.9">>
      [] c = "pythonpython3" -> <<"python", "python", "3">>
      [] c = "python" -> <<"python">>
      [] OTHER -> <<c>>

ValidText(c) == c # BadName

(***************************************************************************)
(* get_python_version  (venvs.rs 211-288)                                  *)
(* An outcome is what one strategy ends with: a version (Ok(Some) is       *)
(* returned), nothing (the next strategy is tried) or an error (the ?      *)
(* returns Err).                                                           *)
(***************************************************************************)
Found(by, v) == [t |-> "some", by |-> by, v |-> v]
Nothing(by) == [t |-> "none", by |-> by, v |-> <<>>]
Failed(by) == [t |-> "err", by |-> by, v |-> <<>>]

\* the file a path leads to, symlinks followed
Target(f, p) == NodeAt(f, canonicalize(f, p))

\* Method 1: pyvenv.cfg (lines 213-225)
Method1(f, root) ==
    LET p == root \o <<"pyvenv.cfg">>
        n == Target(f, p)
        ls == lines_ok(n.lines)
        hits == {i \in 1..Len(ls) : starts_with(ls[i], "version = ")}
    IN IF ~exists(f, p) THEN Nothing("pyvenv.cfg")
       ELSE IF ~n.open_ok THEN Failed("pyvenv.cfg")
       ELSE IF hits = {} THEN Nothing("pyvenv.cfg")
       ELSE LET i == CHOOSE i \in hits : \A j \in hits : i <= j
            IN Found("pyvenv.cfg", trim(Tail(ls[i])))

\* Method 2: the names in lib (lines 228-242).  find takes the first name in
\* the order read_dir yields them, which the system does not fix: one outcome
\* per name that may come first
Method2(f, root) ==
    LET p == root \o <<"lib">>
        names == {q[Len(q)] : q \in read_dir(f, p).entries}
        hits == {c \in names : ValidText(c) /\ starts_with(NameText(c), "python")}
    IN IF ~exists(f, p) THEN {Nothing("lib")}
       ELSE IF ~read_dir(f, p).ok THEN {Failed("lib")}
       ELSE IF hits = {} THEN {Nothing("lib")}
       ELSE {IF trim_start_matches(NameText(c), "python") # <<>>
             THEN Found("lib", trim_start_matches(NameText(c), "python"))
             ELSE Nothing("lib") : c \in hits}

\* Method 3: conda-meta/history (lines 245-264)
Method3(f, root) ==
    LET p == root \o <<"conda-meta", "history">>
        n == Target(f, p)
        ls == lines_ok(n.lines)
        hits == {i \in 1..Len(ls) : find(ls[i], "python-") # 0}
    IN IF ~exists(f, p) THEN Nothing("conda")
       ELSE IF ~n.open_ok THEN Failed("conda")
       ELSE IF hits = {} THEN Nothing("conda")
       ELSE LET i == CHOOSE i \in hits : \A j \in hits : i <= j
                start == find(ls[i], "python-")
            IN Found("conda", first_word(SubSeq(ls[i], start + 1, Len(ls[i]))))

\* Method 4: python --version (lines 267-284)
Method4(f, root) ==
    LET p == root \o <<"bin", "python">>
        n == Target(f, p)
        version_output ==
            IF trim(n.stdout) # <<>> THEN trim(n.stdout) ELSE trim(n.stderr)
    IN IF ~exists(f, p) THEN Nothing("exec")
       ELSE IF ~n.spawn_ok THEN Failed("exec")
       ELSE IF starts_with(version_output, "Python ")
            THEN Found("exec", Tail(version_output))
            ELSE Nothing("exec")

Strategy_LibFirst(f, root, k) ==
    CASE k = 1 -> Method2(f, root)
      [] k = 2 -> {Method1(f, root)}
      [] k = 3 -> {Method3(f, root)}
      [] k = 4 -> {Method4(f, root)}

\* the k-th strategy of the chain: the outcomes it can end with
Strategy(f, root, k) ==
    CASE k = 1 -> {Method1(f, root)}
      [] k = 2 -> Method2(f, root)
      [] k = 3 -> {Method3(f, root)}
      [] k = 4 -> {Method4(f, root)}

\* the number of strategies
NStrategies == 4

RECURSIVE VersionFrom(_, _, _)
\* the results get_python_version can return when strategies k.. are left
VersionFrom(f, root, k) ==
    IF k > NStrategies THEN {Nothing("all")}
    ELSE UNION {IF o.t = "none" THEN VersionFrom(f, root, k + 1) ELSE {o} :
                o \in Strategy(f, root, k)}

get_python_version(f, root) == VersionFrom(f, root, 1)

(***************************************************************************)
(* build_virtualenv  (venvs.rs 177-209)                                    *)
(***************************************************************************)
\* human_bytes::human_bytes, a rendering of the size
human_bytes(n) == <<"human_bytes", n>>

file_name(p) == p[Len(p)]

python_path(p) == p \o <<"bin", "python">>

VirtualEnv(p, version, size) ==
    [path |-> p, name |-> file_name(p), python_path |-> python_path(p),
     python_version |-> version, venv_size |-> size,
     venv_size_str |-> human_bytes(size)]

NoVenv == VirtualEnv(NoPath, <<>>, 0)

Ok(v) == [t |-> "ok", why |-> "", venv |-> v]
Err(why) == [t |-> "err", why |-> why, venv |-> NoVenv]
Pending == [t |-> "pending", why |-> "", venv |-> NoVenv]

\* line 190: unwrap_or_else(|| "Unknown".to_string())
unwrap_or_unknown(o) == IF o.t = "some" THEN o.v ELSE <<"Unknown">>

\* lines 192-208, once the version is known
FinishBuild(f, p, o) ==
    IF Len(p) = 0 \/ ~ValidText(file_name(p))
    THEN Err("Failed to parse virtual environment name")
    ELSE Ok(VirtualEnv(p, unwrap_or_unknown(o), get_dir_size(f, p)))

python_found_Always(f, p) == TRUE

\* line 182: python_path.exists()
python_found(f, p) == exists(f, python_path(p))

\* the results build_virtualenv can return
build_virtualenv(f, p) ==
    IF ~python_found(f, p) THEN {Err("Python executable not found")}
    ELSE {IF o.t = "err" THEN Err("get_python_version") ELSE FinishBuild(f, p, o) :
          o \in get_python_version(f, p)}

(***************************************************************************)
(* BuildSpec: build_virtualenv on one candidate, one strategy per step.    *)
(***************************************************************************)
BE == <<"envs", "a">>
BX == <<"envs", BadName>>
SysPython == <<"sys", "python3">>

PyShapes == {"none", "broken", "py3", "py2", "odd", "noexec", "link"}

PyNode(shape) ==
    CASE shape = "none" -> NoNode
      [] shape = "broken" -> SymNode(<<"gone">>)
      [] shape = "py3" -> ExecNode(<<"Python ", "3.8">>, <<>>)
      [] shape = "py2" -> ExecNode(<<" ">>, <<"Python ", "2.7", " ">>)
      [] shape = "odd" -> ExecNode(<<"x">>, <<"Python ", "2.7">>)
      [] shape = "noexec" -> FileNode(1)
      [] shape = "link" -> SymNode(SysPython)

CfgShapes == {"none", "unopenable", "no_version", "version", "undecodable", "empty"}

CfgNode(shape) ==
    CASE shape = "none" -> NoNode
      [] shape = "unopenable" -> [TextNode(<<<<"version = ", "3.11">>>>) EXCEPT !.open_ok = FALSE]
      [] shape = "no_version" -> TextNode(<<<<"home = ", "x">>, <<" ", "version = ", "3.11">>>>)
      [] shape = "version" ->
            TextNode(<<<<"home = ", "x">>, <<"version = ", " ", "3.11", " ">>,
                       <<"version = ", "3.9">>>>)
      [] shape = "undecodable" ->
            TextNode(<<<<"version = ", BadBytes>>, <<"version = ", "3.9">>>>)
      [] shape = "empty" -> TextNode(<<<<"version = ">>>>)

LibShapes == {"none", "unlistable", "file", "site", "py311", "bare", "two", "repeated", "badname"}

LibNode(shape) ==
    CASE shape = "none" -> NoNode
      [] shape = "unlistable" -> [DirNode(1) EXCEPT !.list_ok = FALSE]
      [] shape = "file" -> FileNode(1)
      [] OTHER -> DirNode(1)

LibNames(shape) ==
    CASE shape = "site" -> {"site-packages"}
      [] shape = "py311" -> {"python3.11", "site-packages"}
      [] shape = "bare" -> {"python"}
      [] shape = "two" -> {"python3.9", "python3.11"}
      [] shape = "repeated" -> {"pythonpython3"}
      [] shape = "badname" -> {BadName}
      [] OTHER -> {}

CondaShapes == {"none", "unopenable", "no_python", "python", "python_end"}

CondaNode(shape) ==
    CASE shape = "none" -> NoNode
      [] shape = "unopenable" -> [TextNode(<<<<"python-", "3.10">>>>) EXCEPT !.open_ok = FALSE]
      [] shape = "no_python" -> TextNode(<<<<"+defaults::", "pip-", "23">>>>)
      [] shape = "python" ->
            TextNode(<<<<"==>", " ", "x">>,
                       <<"+defaults::", "python-", "3.10", "-h12", " ", "x">>,
                       <<"python-", "3.7">>>>)
      [] shape = "python_end" -> TextNode(<<<<"+defaults::", "python-">>>>)

\* one environment at root p
EnvTree(p, py, cfg, lib, conda) ==
    (p :> DirNode(1))
    @@ (p \o <<"bin">> :> DirNode(1))
    @@ (p \o <<"bin", "python">> :> PyNode(py))
    @@ (p \o <<"pyvenv.cfg">> :> CfgNode(cfg))
    @@ (p \o <<"lib">> :> LibNode(lib))
    @@ [q \in {p \o <<"lib", c>> : c \in LibNames(lib)} |-> DirNode(1)]
    @@ (p \o <<"conda-meta">> :> (IF conda = "none" THEN NoNode ELSE DirNode(1)))
    @@ (p \o <<"conda-meta", "history">> :> CondaNode(conda))

BuildTree(p, py, cfg, lib, conda) ==
    (<<"envs">> :> DirNode(1)) @@ (<<"sys">> :> DirNode(1))
    @@ (SysPython :> ExecNode(<<"Python ", "3.12">>, <<>>))
    @@ EnvTree(p, py, cfg, lib, conda)

BuildInit ==
    /\ b_path \in {BE, BX}
    /\ fs \in {BuildTree(b_path, py, cfg, lib, conda) :
                 py \in PyShapes, cfg \in CfgShapes, lib \in LibShapes,
                 conda \in CondaShapes}
    /\ b_pc = "check"
    /\ b_tried = <<>>
    /\ b_version = Nothing("pending")
    /\ b_result = Pending
    /\ ScanOff
    /\ SizeOff
    /\ LoopOff

\* lines 178-187
BuildCheckPython ==
    /\ b_pc = "check"
    /\ IF python_found(fs, b_path)
       THEN b_pc' = "version" /\ b_result' = b_result
       ELSE b_pc' = "done" /\ b_result' = Err("Python executable not found")
    /\ UNCHANGED <<fs, b_path, b_tried, b_version, scanVars, sizeVars, loopVars>>

\* line 190 and one strategy of get_python_version
BuildStrategy ==
    /\ b_pc = "version"
    /\ \E o \in Strategy(fs, b_path, Len(b_tried) + 1) :
          /\ b_tried' = Append(b_tried, o)
          /\ CASE o.t = "some" ->
                    b_version' = o /\ b_pc' = "name" /\ b_result' = b_result
               [] o.t = "err" ->
                    /\ b_version' = o
                    /\ b_pc' = "done"
                    /\ b_result' = Err("get_python_version")
               [] o.t = "none" ->
                    /\ b_result' = b_result
                    /\ IF Len(b_tried) + 1 = NStrategies
                       THEN b_version' = Nothing("all") /\ b_pc' = "name"
                       ELSE b_version' = b_version /\ b_pc' = b_pc
    /\ UNCHANGED <<fs, b_path, scanVars, sizeVars, loopVars>>

\* lines 192-208
BuildFinish ==
    /\ b_pc = "name"
    /\ b_result' = FinishBuild(fs, b_path, b_version)
    /\ b_pc' = "done"
    /\ UNCHANGED <<fs, b_path, b_tried, b_version, scanVars, sizeVars, loopVars>>

BuildNext == BuildCheckPython \/ BuildStrategy \/ BuildFinish

BuildSpec == BuildInit /\ [][BuildNext]_vars

\* the step-by-step run ends with one of the results of the operator
BuildStepAgrees == b_pc = "done" => b_result \in build_virtualenv(fs, b_path)

CfgPath == b_path \o <<"pyvenv.cfg">>

CfgLines == Target(fs, CfgPath).lines

\* the lines of pyvenv.cfg, as read, that begin with "version = "
VersionLines ==
    {i \in 1..Len(CfgLines) :
        Decodable(CfgLines[i]) /\ Len(CfgLines[i]) > 0 /\ CfgLines[i][1] = "version = "}

HasVersionLine ==
    exists(fs, CfgPath) /\ Target(fs, CfgPath).open_ok /\ VersionLines # {}

FirstVersionLine == CfgLines[CHOOSE i \in VersionLines : \A j \in VersionLines : i <= j]

\* r is s without its leading and trailing whitespace
IsTrimOf(r, s) ==
    \E a \in 0..Len(s) : \E b \in 0..(Len(s) - a) :
        /\ r = SubSeq(s, a + 1, Len(s) - b)
        /\ \A i \in 1..a : s[i] = " "
        /\ \A i \in (Len(s) - b + 1)..Len(s) : s[i] = " "
        /\ r = <<>> \/ (r[1] # " " /\ r[Len(r)] # " ")

StrategyNames == <<"pyvenv.cfg", "lib", "conda", "exec">>

(***************************************************************************)
(* C6.  A readable pyvenv.cfg with a line beginning "version = " decides   *)
(* the version: get_python_version returns the trimmed remainder of the    *)
(* first such line, whatever lib, conda-meta/history and the interpreter   *)
(* would report; strategy k is consulted only after strategies 1..k-1,     *)
(* in that order, all found nothing.                                       *)
(***************************************************************************)
PyvenvCfgVersionWins ==
    /\ HasVersionLine =>
          /\ \A o \in get_python_version(fs, b_path) :
                o.t = "some" /\ o.by = "pyvenv.cfg"
                   /\ IsTrimOf(o.v, Tail(FirstVersionLine))
          /\ b_tried # <<>> =>
                /\ Len(b_tried) = 1
                /\ b_tried[1].t = "some" /\ b_tried[1].by = "pyvenv.cfg"
                /\ IsTrimOf(b_tried[1].v, Tail(FirstVersionLine))
                /\ b_version = b_tried[1]
          /\ (b_pc = "done" /\ b_result.t = "ok") =>
                b_result.venv.python_version = b_version.v
    /\ \A i \in 1..Len(b_tried) :
          /\ b_tried[i].by = StrategyNames[i]
          /\ \A j \in 1..(i - 1) : b_tried[j].t = "none"

\* a finished build that took 3.11 from pyvenv.cfg while lib, the conda
\* history and the interpreter all report another version
CfgBeatsOtherSources ==
    /\ b_pc = "done" /\ HasVersionLine /\ b_result.t = "ok"
    /\ b_result.venv.python_version = <<"3.11">>
    /\ Found("lib", <<"3.9">>) \in Method2(fs, b_path)
    /\ Method3(fs, b_path) = Found("conda", <<"3.10", "-h12">>)
    /\ Method4(fs, b_path) = Found("exec", <<"3.8">>)

Eligible == python_found(fs, b_path) /\ ValidText(file_name(b_path))

Unopenable(p) == exists(fs, p) /\ ~Target(fs, p).open_ok

Unlistable(p) ==
    exists(fs, p) /\ ~(Target(fs, p).kind = "dir" /\ Target(fs, p).list_ok)

Unspawnable(p) == exists(fs, p) /\ ~Target(fs, p).spawn_ok

\* the strategy consulted k-th met a file it could not open, list or run
StrategyFails(k) ==
    CASE k = 1 -> Unopenable(b_path \o <<"pyvenv.cfg">>)
      [] k = 2 -> Unlistable(b_path \o <<"lib">>)
      [] k = 3 -> Unopenable(b_path \o <<"conda-meta", "history">>)
      [] k = 4 -> Unspawnable(b_path \o <<"bin", "python">>)

\* C7: a candidate whose bin/python exists and whose name is valid
\* text is built whatever happens inside the strategies, with "Unknown" when
\* none yields a version
VersionFailureNeverExcludes ==
    (b_pc = "done" /\ Eligible) =>
        /\ b_result.t = "ok"
        /\ (\A i \in 1..Len(b_tried) : b_tried[i].t # "some") =>
              b_result.venv.python_version = <<"Unknown">>

\* what the code does instead: a strategy that finds nothing falls through
\* to the next, and when none yields a version and none fails the candidate
\* is built with "Unknown"; a strategy that is reached and fails makes
\* get_python_version return an error (the ? of lines 216, 231, 248, 272),
\* and the candidate is excluded
VersionFailureExcludes ==
    /\ \A k \in 1..Len(b_tried) :
          /\ StrategyFails(k) <=> b_tried[k].t = "err"
          /\ b_tried[k].t = "err" =>
                k = Len(b_tried) /\ b_pc = "done" /\ b_result.t = "err"
          /\ (b_tried[k].t = "none" /\ k < NStrategies /\ b_pc = "done") =>
                k < Len(b_tried)
    /\ (b_pc = "done" /\ Eligible) =>
          /\ b_tried # <<>>
          /\ b_result.t = "ok" <=> \A k \in 1..Len(b_tried) : ~StrategyFails(k)
          /\ (\A k \in 1..Len(b_tried) : b_tried[k].t = "none") =>
                /\ Len(b_tried) = NStrategies
                /\ b_result.t = "ok"
                /\ b_result.venv.python_version = <<"Unknown">>

\* a candidate with a valid name whose interpreter exists and cannot be
\* run, after three strategies that found nothing: the build fails
UnspawnableExcluded ==
    /\ b_pc = "done" /\ Eligible
    /\ Len(b_tried) = NStrategies
    /\ \A k \in 1..3 : b_tried[k].t = "none"
    /\ b_tried[4].t = "err"
    /\ b_result.t = "err"

\* a candidate no strategy finds a version for and none fails on
UnknownIncluded ==
    /\ b_pc = "done" /\ Eligible /\ Len(b_tried) = NStrategies
    /\ b_result.t = "ok" /\ b_result.venv.python_version = <<"Unknown">>

(***************************************************************************)
(* get_venv_paths  (venvs.rs 40-121)                                       *)
(***************************************************************************)
\* max_depth(4)
MaxDepth == 4

\* four of the templates of lines 43-77; a relative path the code joins to
\* the home directory in one piece is one component here
search_paths(home) ==
    <<home \o <<".virtualenvs">>,
      home \o <<".local/share/virtualenvs">>,
      home \o <<".asdf/installs/python">>,
      home \o <<".asdf/installs/python", "versions">>>>

IsPath(p) == p # NoPath

\* lines 80-83: filter_map(|path| canonicalize(path).ok())
canonical_paths(f, home) ==
    SelectSeq([i \in 1..Len(search_paths(home)) |-> canonicalize(f, search_paths(home)[i])],
              IsPath)

RECURSIVE unique(_)
\* lines 85-89: the first occurrence of each path, in order
unique(ps) ==
    IF ps = <<>> THEN <<>>
    ELSE LET init == unique(SubSeq(ps, 1, Len(ps) - 1))
             last == ps[Len(ps)]
         IN IF \E i \in 1..Len(init) : init[i] = last THEN init ELSE Append(init, last)

RECURSIVE SetToSeq(_)
\* the order in which a directory's entries are read: one fixed order
SetToSeq(S) ==
    IF S = {} THEN <<>>
    ELSE LET x == CHOOSE x \in S : TRUE IN <<x>> \o SetToSeq(S \ {x})

RECURSIVE WalkDir(_, _, _), WalkAll(_, _, _)
\* WalkDir::new(p).follow_links(false).max_depth(4), errors dropped
\* (filter_map(Result::ok)): p, then what lies below it, depth first
WalkDir(f, p, depth) ==
    LET md == symlink_metadata(f, p)
        rd == read_dir(f, p)
    IN IF ~md.ok THEN <<>>
       ELSE <<p>> \o
            (IF depth < MaxDepth /\ is_dir(md.meta) /\ rd.ok
             THEN WalkAll(f, SetToSeq(rd.entries), depth + 1)
             ELSE <<>>)

WalkAll(f, ps, depth) ==
    IF ps = <<>> THEN <<>>
    ELSE WalkDir(f, Head(ps), depth) \o WalkAll(f, Tail(ps), depth)

\* lines 99-106: the entry is named python and its parent is named bin
IsPythonInBin(e) ==
    Len(e) >= 2 /\ e[Len(e)] = "python" /\ e[Len(e) - 1] = "bin"

\* lines 107-113: the parent of the parent
venv_root(e) == SubSeq(e, 1, Len(e) - 2)

\* lines 93-114: the environment roots found from one search root
roots_under(f, search_path) ==
    LET hits == SelectSeq(WalkDir(f, search_path, 0), IsPythonInBin)
    IN [i \in 1..Len(hits) |-> venv_root(hits[i])]

RECURSIVE flatten(_)
flatten(ss) == IF ss = <<>> THEN <<>> ELSE Head(ss) \o flatten(Tail(ss))

unique_paths(f, home) == unique(canonical_paths(f, home))

\* lines 91-120
get_venv_paths(f, home) ==
    flatten([i \in 1..Len(unique_paths(f, home)) |->
                roots_under(f, unique_paths(f, home)[i])])

(***************************************************************************)
(* build_virtualenvs (venvs.rs 290-302), get_venvs (304-308) and the scan  *)
(* of main (main.rs 102-108)                                               *)
(***************************************************************************)
collect_AbortOnError(acc, r) == IF r.t = "ok" THEN Append(acc, r.venv) ELSE <<>>

\* lines 293-300: filter_map keeps Ok(venv) and drops Err
collect(acc, r) == IF r.t = "ok" THEN Append(acc, r.venv) ELSE acc

before_Ascending(a, b) == a.venv_size < b.venv_size

\* main.rs 105: b.venv_size.cmp(&a.venv_size) is Less, a sorts before b
before(a, b) == b.venv_size < a.venv_size

RECURSIVE insert(_, _)
\* x goes after every element that does not sort after it (a stable sort)
insert(s, x) ==
    IF s = <<>> THEN <<x>>
    ELSE IF before(x, Head(s)) THEN <<x>> \o s
    ELSE <<Head(s)>> \o insert(Tail(s), x)

RECURSIVE sort_by(_)
\* slice::sort_by
sort_by(s) ==
    IF s = <<>> THEN <<>> ELSE insert(sort_by(SubSeq(s, 1, Len(s) - 1)), s[Len(s)])

(***************************************************************************)
(* Spec: one scan of main.  The workers of build_virtualenvs finish in any *)
(* order; the records are taken in the order the workers finish, which     *)
(* covers every order the parallel collect can give.                       *)
(***************************************************************************)
Home == <<"home">>
DirV == <<"home", ".virtualenvs">>
DirS == <<"home", ".local/share/virtualenvs">>
DirA == <<"home", ".asdf/installs/python">>
DirAV == <<"home", ".asdf/installs/python", "versions">>
EnvV == DirV \o <<"a">>
EnvS == DirS \o <<"a">>
EnvX == DirAV \o <<"x">>
EnvY == DirAV \o <<"g", "y">>

VShapes == {"none", "dir", "to_share", "to_asdf"}

Nowhere == [q \in {} |-> NoNode]

\* an environment with a pyvenv.cfg and a data file of the given length
Env(p, py, cfg, len) ==
    EnvTree(p, py, cfg, "none", "none") @@ (p \o <<"data">> :> FileNode(len))

\* ~/.virtualenvs: absent, a directory with one environment, or a symlink
\* to another search root
VTree(shape) ==
    CASE shape = "none" -> Nowhere
      [] shape = "dir" -> (DirV :> DirNode(1)) @@ Env(EnvV, "link", "version", 1)
      [] shape = "to_share" -> (DirV :> SymNode(DirS))
      [] shape = "to_asdf" -> (DirV :> SymNode(DirA))

\* ~/.asdf/installs/python/versions, a search root inside a search root
AVTree(present, pyX, cfgX, lenX) ==
    IF present
    THEN (DirAV :> DirNode(1)) @@ Env(EnvX, pyX, cfgX, lenX)
         @@ (DirAV \o <<"g">> :> DirNode(1)) @@ Env(EnvY, "py3", "none", 1)
    ELSE Nowhere

Layout(v, pyS, lenS, av, pyX, cfgX, lenX) ==
    (Home :> DirNode(1)) @@ (<<"sys">> :> DirNode(1))
    @@ (SysPython :> ExecNode(<<"Python ", "3.12">>, <<>>))
    @@ VTree(v)
    @@ (DirS :> DirNode(1)) @@ Env(EnvS, pyS, "version", lenS)
    @@ (DirA :> DirNode(1))
    @@ AVTree(av, pyX, cfgX, lenX)

Layouts ==
    {Layout(v, pyS, lenS, av, pyX, cfgX, lenX) :
        v \in VShapes, pyS \in {"py3", "broken"}, lenS \in 0..MaxLen,
        av \in BOOLEAN, pyX \in {"py3", "noexec"}, cfgX \in {"version", "none"},
        lenX \in 0..MaxLen}

Init ==
    /\ fs \in Layouts
    /\ home_dir \in {Home, NoPath}
    /\ pc = "scan"
    /\ venv_paths = <<>>
    /\ todo = {}
    /\ venvs = <<>>
    /\ errors = {}
    /\ SizeOff
    /\ BuildOff
    /\ LoopOff

\* get_venv_paths, called by get_venvs (venvs.rs 305, main.rs 103); without a
\* home directory the error goes up through get_venvs and ends main
GetVenvPaths ==
    /\ pc = "scan"
    /\ IF home_dir = NoPath
       THEN pc' = "failed" /\ UNCHANGED <<venv_paths, todo>>
       ELSE /\ venv_paths' = get_venv_paths(fs, home_dir)
            /\ todo' = 1..Len(get_venv_paths(fs, home_dir))
            /\ pc' = "build"
    /\ UNCHANGED <<fs, home_dir, venvs, errors, sizeVars, buildVars, loopVars>>

\* one worker of build_virtualenvs finishes candidate i
BuildVirtualenv(i) ==
    /\ pc = "build"
    /\ i \in todo
    /\ \E r \in build_virtualenv(fs, venv_paths[i]) :
          /\ venvs' = collect(venvs, r)
          /\ errors' = IF r.t = "err" THEN errors \cup {<<i, r.why>>} ELSE errors
    /\ todo' = todo \ {i}
    /\ UNCHANGED <<fs, home_dir, pc, venv_paths, sizeVars, buildVars, loopVars>>

\* build_virtualenvs and get_venvs return Ok(venvs); main sorts (main.rs 105)
Sort ==
    /\ pc = "build"
    /\ todo = {}
    /\ venvs' = sort_by(venvs)
    /\ pc' = "found"
    /\ UNCHANGED <<fs, home_dir, venv_paths, todo, errors, sizeVars, buildVars, loopVars>>

Next ==
    \/ GetVenvPaths
    \/ \E i \in todo : BuildVirtualenv(i)
    \/ Sort

Spec == Init /\ [][Next]_vars

Scanned == pc \in {"build", "found"}

\* the candidates a worker has finished
Done == (1..Len(venv_paths)) \ todo

BuildOk(p) == \E r \in build_virtualenv(fs, p) : r.t = "ok"

\* how often path p is at the indices I of the sequence of paths ps
Occurrences(ps, I, p) == Cardinality({i \in I : ps[i] = p})

Records(p) == {k \in 1..Len(venvs) : venvs[k].path = p}

\* the search roots are distinct after the dedup of lines 85-89
UniquePathsDistinct ==
    \A i, j \in 1..Len(unique_paths(fs, Home)) :
        unique_paths(fs, Home)[i] = unique_paths(fs, Home)[j] => i = j

(***************************************************************************)
(* C1.  The records main holds after the sort are non-increasing in        *)
(* venv_size (each record's size is >= the next one's), in whatever order  *)
(* the workers finished, and they are the records that were built.         *)
(***************************************************************************)
SortedBySizeDescending ==
    pc = "found" =>
        /\ \A k \in 1..(Len(venvs) - 1) : venvs[k].venv_size >= venvs[k + 1].venv_size
        /\ Len(venvs) = Cardinality({i \in 1..Len(venv_paths) : BuildOk(venv_paths[i])})

\* a sorted result of three records or more, of different sizes, whose
\* largest record is the one of the last candidate
SortMovedLargestFirst ==
    /\ pc = "found" /\ Len(venvs) >= 3
    /\ venvs[1].venv_size > venvs[Len(venvs)].venv_size
    /\ venvs[1].path = venv_paths[Len(venv_paths)]

(***************************************************************************)
(* C4.  A candidate whose bin/python does not exist is rejected and has no *)
(* record; every record's python_path is path/bin/python and exists.       *)
(***************************************************************************)
InterpreterExistsForEveryRecord ==
    Scanned =>
        /\ \A k \in 1..Len(venvs) :
              /\ venvs[k].python_path = venvs[k].path \o <<"bin", "python">>
              /\ exists(fs, venvs[k].python_path)
        /\ \A i \in Done :
              ~exists(fs, venv_paths[i] \o <<"bin", "python">>) =>
                 /\ Records(venv_paths[i]) = {}
                 /\ <<i, "Python executable not found">> \in errors

\* a finished scan that located a candidate whose bin/python is a broken
\* symlink, rejected it and built another
MissingInterpreterRejected ==
    /\ pc = "found" /\ venvs # <<>>
    /\ \E i \in 1..Len(venv_paths) :
          /\ NodeAt(fs, venv_paths[i] \o <<"bin", "python">>).kind = "symlink"
          /\ ~exists(fs, venv_paths[i] \o <<"bin", "python">>)
          /\ Records(venv_paths[i]) = {}

\* the templates that lead to directory d
TemplatesOf(d) ==
    {i \in 1..Len(search_paths(Home)) : canonicalize(fs, search_paths(Home)[i]) = d}

AliasedRoots ==
    {unique_paths(fs, Home)[i] : i \in 1..Len(unique_paths(fs, Home))}
        \cap {d \in DOMAIN fs : Cardinality(TemplatesOf(d)) >= 2}

(***************************************************************************)
(* C5.  Two templates that canonicalize to the same directory: it is one   *)
(* scan root, and every environment found under it is listed exactly once  *)
(* by get_venv_paths and has at most one record.                           *)
(***************************************************************************)
AliasedRootEnvsOnce ==
    Scanned =>
        \A d \in AliasedRoots :
            /\ Occurrences(unique_paths(fs, Home), 1..Len(unique_paths(fs, Home)), d) = 1
            /\ \A i \in 1..Len(venv_paths) :
                  IsPrefix(d, venv_paths[i]) =>
                     /\ Occurrences(venv_paths, 1..Len(venv_paths), venv_paths[i]) = 1
                     /\ Cardinality(Records(venv_paths[i])) <= 1

(***************************************************************************)
(* C9.  build_virtualenvs returns Ok whatever the candidates do: at every  *)
(* moment the records are exactly one per finished candidate whose build   *)
(* succeeds, each as build_virtualenv made it, and none for a candidate    *)
(* whose build fails; only a missing home directory fails the scan.        *)
(***************************************************************************)
BatchSurvivesFailures ==
    /\ pc = "failed" => home_dir = NoPath
    /\ Scanned =>
          /\ \A i \in 1..Len(venv_paths) :
                Cardinality(Records(venv_paths[i])) =
                   IF BuildOk(venv_paths[i])
                   THEN Occurrences(venv_paths, IF pc = "found" THEN 1..Len(venv_paths) ELSE Done,
                                    venv_paths[i])
                   ELSE 0
          /\ \A k \in 1..Len(venvs) :
                /\ Ok(venvs[k]) \in build_virtualenv(fs, venvs[k].path)
                /\ \E i \in 1..Len(venv_paths) : venv_paths[i] = venvs[k].path
          /\ \A i \in Done : ~BuildOk(venv_paths[i]) => \E e \in errors : e[1] = i

\* a finished scan in which builds failed for two different reasons, one of
\* them before a candidate that was built, and two candidates were built
FailuresBesideRecords ==
    /\ pc = "found" /\ Len(venvs) >= 2
    /\ \E i, j \in 1..Len(venv_paths) :
          i < j /\ ~BuildOk(venv_paths[i]) /\ BuildOk(venv_paths[j])
    /\ \E e1, e2 \in errors : e1[2] # e2[2]

(***************************************************************************)
(* C10.  No path is listed twice by get_venv_paths and no two records of a *)
(* scan result have the same path.                                         *)
(***************************************************************************)
NoDuplicatePaths ==
    Scanned =>
        /\ \A i, j \in 1..Len(venv_paths) : venv_paths[i] = venv_paths[j] => i = j
        /\ \A k, l \in 1..Len(venvs) : venvs[k].path = venvs[l].path => k = l

(***************************************************************************)
(* LoopSpec: the loop of main (main.rs 102-167).  Every iteration scans    *)
(* again; the operator's answers to the three prompts are inputs.          *)
(***************************************************************************)
\* iterations of the loop that are explored
MaxIterations == 2

\* the tree without p and everything below it
Without(f, p) == [q \in {q \in DOMAIN f : ~IsPrefix(p, q)} |-> f[q]]

\* fs::remove_dir_all (main.rs 82): an error when lstat fails or the path is
\* not a directory; a symlink is unlinked and not followed; the removal of a
\* directory succeeds, or fails on the way with nothing or only the contents
\* removed
remove_dir_all(f, p) ==
    LET md == symlink_metadata(f, p)
        at == LstatPath(f, p)
    IN IF ~md.ok THEN {[ok |-> FALSE, fs |-> f]}
       ELSE IF is_symlink(md.meta)
       THEN {[ok |-> TRUE, fs |-> [q \in DOMAIN f \ {at} |-> f[q]]]}
       ELSE IF ~is_dir(md.meta) THEN {[ok |-> FALSE, fs |-> f]}
       ELSE {[ok |-> TRUE, fs |-> Without(f, at)],
             [ok |-> FALSE, fs |-> f],
             [ok |-> FALSE, fs |-> (at :> f[at]) @@ Without(f, at)]}

RECURSIVE options_at(_, _)
\* main.rs 43-46: the records of the ticked options, in option order
options_at(vs, S) ==
    IF vs = <<>> THEN <<>>
    ELSE options_at(SubSeq(vs, 1, Len(vs) - 1), S)
            \o (IF Len(vs) \in S THEN <<vs[Len(vs)]>> ELSE <<>>)

\* main.rs 27-49: MultiSelect's answer is the ticked options, or an error that
\* select_venvs_to_delete turns into the empty selection
select_venvs_to_delete(vs, prompt_ok, S) ==
    IF prompt_ok THEN options_at(vs, S) ELSE <<>>

\* main.rs 149-152: the records that are not equal to a selected one
remaining_venvs(vs, sel) ==
    LET kept(v) == \A i \in 1..Len(sel) : sel[i] # v IN SelectSeq(vs, kept)

LoopLayouts ==
    {Layout(v, pyS, 1, av, "py3", "version", lenX) :
        v \in {"none", "dir"}, pyS \in {"py3", "broken"},
        av \in BOOLEAN, lenX \in 0..MaxLen}

LoopInit ==
    /\ fs \in LoopLayouts
    /\ home_dir \in {Home, NoPath}
    /\ pc = "scan"
    /\ venv_paths = <<>>
    /\ todo = {}
    /\ venvs = <<>>
    /\ errors = {}
    /\ iteration = 1
    /\ fs_scan = fs
    /\ checked = {}
    /\ selected_venvs = <<>>
    /\ answer = "none"
    /\ removals = <<>>
    /\ SizeOff
    /\ BuildOff

\* main.rs 126-129: nothing found, break
NoneFound ==
    /\ pc = "found"
    /\ venvs = <<>>
    /\ pc' = "exit"
    /\ UNCHANGED <<fs, home_dir, venv_paths, todo, venvs, errors,
                   sizeVars, buildVars, loopVars>>

\* main.rs 131-137: the selection prompt; an empty selection breaks
SelectVenvs ==
    /\ pc = "found"
    /\ venvs # <<>>
    /\ \E prompt_ok \in BOOLEAN, S \in SUBSET (1..Len(venvs)) :
          /\ checked' = IF prompt_ok THEN S ELSE {}
          /\ selected_venvs' = select_venvs_to_delete(venvs, prompt_ok, S)
          /\ pc' = IF select_venvs_to_delete(venvs, prompt_ok, S) = <<>>
                   THEN "exit" ELSE "confirm"
    /\ UNCHANGED <<fs, home_dir, venv_paths, todo, venvs, errors,
                   iteration, fs_scan, answer, removals, sizeVars, buildVars>>

\* main.rs 139-142, confirm_deletion (59-64): no breaks, a prompt error
\* leaves main with Err
ConfirmDeletion ==
    /\ pc = "confirm"
    /\ \E a \in {"yes", "no", "err"} :
          /\ answer' = a
          /\ pc' = CASE a = "yes" -> "delete"
                     [] a = "no" -> "exit"
                     [] a = "err" -> "failed"
    /\ UNCHANGED <<fs, home_dir, venv_paths, todo, venvs, errors,
                   iteration, fs_scan, checked, selected_venvs, removals,
                   sizeVars, buildVars>>

\* one turn of the for loop of delete_venvs (main.rs 77-86); an error leaves
\* delete_venvs and main with Err
DeleteVenv ==
    /\ pc = "delete"
    /\ Len(removals) < Len(selected_venvs)
    /\ LET venv == selected_venvs[Len(removals) + 1] IN
          /\ removals' = Append(removals, venv.path)
          /\ \E r \in remove_dir_all(fs, venv.path) :
                /\ fs' = r.fs
                /\ pc' = IF r.ok THEN "delete" ELSE "failed"
    /\ UNCHANGED <<home_dir, venv_paths, todo, venvs, errors,
                   iteration, fs_scan, checked, selected_venvs, answer,
                   sizeVars, buildVars>>

\* main.rs 146-166: delete_venvs returned Ok; break when no record remains
\* or the operator does not ask for more (a prompt error counts as no),
\* else the next iteration scans again
AskRepeat ==
    /\ pc = "delete"
    /\ Len(removals) = Len(selected_venvs)
    /\ \E repeat \in BOOLEAN :
          IF remaining_venvs(venvs, selected_venvs) # <<>> /\ repeat
             /\ iteration < MaxIterations
          THEN /\ pc' = "scan"
               /\ iteration' = iteration + 1
               /\ fs_scan' = fs
               /\ venv_paths' = <<>> /\ todo' = {} /\ venvs' = <<>> /\ errors' = {}
               /\ checked' = {} /\ selected_venvs' = <<>>
               /\ answer' = "none" /\ removals' = <<>>
          ELSE /\ pc' = "exit"
               /\ UNCHANGED <<venv_paths, todo, venvs, errors, loopVars>>
    /\ UNCHANGED <<fs, home_dir, sizeVars, buildVars>>

LoopNext ==
    \/ GetVenvPaths
    \/ \E i \in todo : BuildVirtualenv(i)
    \/ Sort
    \/ NoneFound
    \/ SelectVenvs
    \/ ConfirmDeletion
    \/ DeleteVenv
    \/ AskRepeat

LoopSpec == LoopInit /\ [][LoopNext]_vars

\* the paths given to remove_dir_all in this iteration
Removals == {removals[i] : i \in 1..Len(removals)}

\* what this iteration's scan saw and is no longer there
Gone == DOMAIN fs_scan \ DOMAIN fs

\* the scan of this iteration is over and venvs is its result
ScanOver == pc \in {"found", "confirm", "delete", "exit", "failed"} /\ home_dir # NoPath

\* nothing is removed before the operator has said yes, every path given to
\* remove_dir_all is the path of a ticked record of this iteration's scan
\* result, whatever is gone lay at or below such a path, and leaving the loop
\* without a yes leaves the filesystem as the scan saw it
RemovalNeedsSelectionAndYes ==
    /\ (removals # <<>> \/ fs # fs_scan) => answer = "yes"
    /\ \A p \in Removals : \E k \in checked : k \in 1..Len(venvs) /\ venvs[k].path = p
    /\ \A q \in Gone : \E p \in Removals : IsPrefix(p, q)
    /\ pc = "confirm" => selected_venvs # <<>>
    /\ pc = "delete" => answer = "yes" /\ selected_venvs # <<>>
    /\ (ScanOver /\ pc # "found" /\ selected_venvs = <<>>) => pc = "exit"
    /\ answer = "no" => pc = "exit"
    /\ answer = "err" => pc = "failed"

\* the path of a record that is not ticked is not given to remove_dir_all
UnselectedNeverRemoved ==
    ScanOver =>
        \A k \in (1..Len(venvs)) \ checked : venvs[k].path \notin Removals

\* C11.  In every iteration of the loop of main a directory is removed only
\* when it is the path of a record of this iteration's scan result that the
\* operator ticked and the operator then answered yes; an empty or failed
\* selection, a no or a prompt error at the confirmation ends the loop with
\* nothing removed in the iteration; and the path of an unticked record is
\* never given to the removal step.
OnlySelectedConfirmedRemoved ==
    RemovalNeedsSelectionAndYes /\ UnselectedNeverRemoved

\* without two records of one path, no path of an unticked record is removed
DistinctRecordsUnselectedKept ==
    (\A k, l \in 1..Len(venvs) : venvs[k].path = venvs[l].path => k = l)
        => UnselectedNeverRemoved

\* a second iteration in which a ticked environment has been removed and an
\* unticked one is still there
SecondIterationRemoval ==
    /\ iteration = 2 /\ pc = "exit" /\ answer = "yes"
    /\ Removals # {} /\ Gone # {}
    /\ \E k \in (1..Len(venvs)) \ checked : venvs[k].path \in DOMAIN fs

\* the operator ticked something and said no: nothing is gone
DeclinedNothingRemoved ==
    /\ pc = "exit" /\ answer = "no" /\ checked # {} /\ fs = fs_scan

====
